---- MODULE Spec2Model ----
(***************************************************************************)
(* Model of the health-check lambda of unity-cs-monitoring-lambda:         *)
(* src/lambda/lambda_function.py (Parameter Resolver, Discovery Scanner,   *)
(* Credential Exchange, Health Prober, Report Publisher, lambda_handler)   *)
(* and the older Discovery Scanner of src/fetch_all.py.                    *)
(*                                                                         *)
(* Every function is a frame (a record holding its locals and its          *)
(* position); the external collaborators (parameter store, identity        *)
(* provider, HTTP endpoints, object store) answer nondeterministically.    *)
(***************************************************************************)
EXTENDS Integers, Sequences, FiniteSets, TLC

VARIABLES
    store,      \* parameter store: plain name -> value (an ordered dict)
    respNames,  \* how the provider names a parameter that was asked for by ARN
    listing,    \* pages describe_parameters returns: [shared |-> pages, local |-> pages]
    clock,      \* microseconds read so far from datetime.datetime.now()
    res,        \* frame of get_ssm_parameter_value
    scan,       \* frame of fetch_health_status_ssm_values / fetch_services_health_status
    probe,      \* frame of check_service_health
    pub,        \* frame of upload_json_to_s3
    s3,         \* object store: <<bucket, key>> -> [Body, ContentType] (an ordered dict)
    written,    \* history: <<bucket, body>> of every accepted put under a timestamped key
    hnd         \* frame of lambda_handler

vars == <<store, respNames, listing, clock, res, scan, probe, pub, s3, written, hnd>>

-----------------------------------------------------------------------------
(* Bounds of the model *)

MaxKeys == 21       \* longest parameter_names list handed to the resolver
MaxPages == 3       \* most pages one listing returns
MaxEntries == 3     \* most entries of a service_infos mapping
MaxUploads == 2     \* most successive calls of upload_json_to_s3

-----------------------------------------------------------------------------
(* Python values *)

None == "<None>"
NoValue == "<unset>"

Min(a, b) == IF a < b THEN a ELSE b

Range(s) == {s[i] : i \in 1..Len(s)}

Digit == <<"0", "1", "2", "3", "4", "5", "6", "7", "8", "9">>

RECURSIVE IntStr(_)
IntStr(n) == IF n < 10 THEN Digit[n + 1] ELSE IntStr(n \div 10) \o Digit[(n % 10) + 1]

\* a value that is an int or a str, with its type
PyInt(n) == [type |-> "int", int |-> n, str |-> ""]
PyStr(s) == [type |-> "str", int |-> 0, str |-> s]

\* str(x): an int is rendered in decimal, a str is itself
str(x) == IF x.type = "int" THEN IntStr(x.int) ELSE x.str

\* a str value inside an f-string: None is rendered "None"
fstr(x) == IF x = None THEN "None" ELSE x

\* s.startswith(p)
startswith(s, p) == Len(s) >= Len(p) /\ SubSeq(s, 1, Len(p)) = p

\* A dict is the sequence of its <<key, value>> items in insertion order.
EmptyDict == <<>>

DictKeys(d) == [i \in 1..Len(d) |-> d[i][1]]

DictHas(d, k) == \E i \in 1..Len(d) : d[i][1] = k

DictGet(d, k) == d[CHOOSE i \in 1..Len(d) : d[i][1] = k][2]

\* d[k] = v: an existing key keeps its place, a new key goes last
DictSet(d, k, v) ==
    IF DictHas(d, k)
    THEN [i \in 1..Len(d) |-> IF d[i][1] = k THEN <<k, v>> ELSE d[i]]
    ELSE Append(d, <<k, v>>)

\* d.update(e), {**d, **e}
RECURSIVE DictUpdate(_, _)
DictUpdate(d, e) ==
    IF e = <<>> THEN d
    ELSE DictUpdate(DictSet(d, e[1][1], e[1][2]), Tail(e))

DictItems(d) == Range(d)

-----------------------------------------------------------------------------
(* Parameter Resolver: get_ssm_parameter_value *)

max_params_per_call == 10

AccountParam == "/unity/shared-services/aws/account"

AccountIds == {"111111111111", "999999999999"}

\* f"arn:aws:ssm:us-west-2:{account_id}:parameter{name}"
ArnOf(account_id, name) == "arn:aws:ssm:us-west-2:" \o account_id \o ":parameter" \o name

\* the stored name a requested name (plain or ARN) addresses, None when there is none
PlainOf(name) ==
    IF DictHas(store, name) THEN name
    ELSE IF \E k \in Range(DictKeys(store)), a \in AccountIds : ArnOf(a, k) = name
         THEN CHOOSE k \in Range(DictKeys(store)) : \E a \in AccountIds : ArnOf(a, k) = name
         ELSE None

\* the Name the provider gives the parameter in its response
ResponseName(name) == IF respNames = "plain" THEN PlainOf(name) ELSE name

RECURSIVE FoundParameters(_)
FoundParameters(chunk) ==
    IF chunk = <<>> THEN <<>>
    ELSE IF PlainOf(Head(chunk)) = None THEN FoundParameters(Tail(chunk))
    ELSE <<[Name |-> ResponseName(Head(chunk)), Value |-> DictGet(store, PlainOf(Head(chunk)))]>>
         \o FoundParameters(Tail(chunk))

\* ssm.get_parameters(Names=chunk, WithDecryption=True), when it answers
GetParametersResponse(chunk) ==
    [Parameters |-> FoundParameters(chunk),
     InvalidParameters |-> SelectSeq(chunk, LAMBDA k : PlainOf(k) = None)]

NoResponse == [Parameters |-> <<>>, InvalidParameters |-> <<>>]

\* {param["Name"]: param["Value"] for param in response["Parameters"]}
RECURSIVE DictOfParameters(_)
DictOfParameters(params) ==
    IF params = <<>> THEN EmptyDict
    ELSE DictUpdate(<<<<params[1].Name, params[1].Value>>>>, DictOfParameters(Tail(params)))

ResIdle ==
    [pc |-> "idle", requested |-> <<>>, shared |-> FALSE, parameter_names |-> <<>>,
     i |-> 0, all_parameters |-> EmptyDict, calls |-> <<>>, ret |-> NoValue]

\* entry of get_ssm_parameter_value(parameter_names, shared)
ResCall(names, shared) ==
    [ResIdle EXCEPT !.pc = IF shared THEN "account" ELSE "loop",
                    !.requested = names, !.shared = shared, !.parameter_names = names]

\* a variant that addresses another region
RewriteNamesOtherRegion(names, account_id) ==
    [j \in 1..Len(names) |-> "arn:aws:ssm:us-east-1:" \o account_id \o ":parameter" \o names[j]]

\* lines 32-36: the names are rewritten with the account id
RewriteNames(names, account_id) == [j \in 1..Len(names) |-> ArnOf(account_id, names[j])]

\* a variant that logs the error and goes on to the lookups
AccountFailureGoesOn(r, e) ==
    [r EXCEPT !.pc = "loop",
              !.calls = Append(@, [op |-> "get_parameter", Name |-> AccountParam,
                                   raised |-> e, Value |-> None])]

\* lines 28-30: the account id could not be read
AccountFailure(r, e) ==
    [r EXCEPT !.pc = "done", !.ret = EmptyDict,
              !.calls = Append(@, [op |-> "get_parameter", Name |-> AccountParam,
                                   raised |-> e, Value |-> None])]

GetAccountId ==
    /\ res.pc = "account"
    /\ \/ \E account_id \in AccountIds :
            res' = [res EXCEPT !.pc = "loop",
                               !.parameter_names = RewriteNames(res.parameter_names, account_id),
                               !.calls = Append(@, [op |-> "get_parameter", Name |-> AccountParam,
                                                    raised |-> None, Value |-> account_id])]
       \/ \E e \in {"ClientError", "KeyError"} :
            res' = AccountFailure(res, e)
    /\ UNCHANGED <<store, respNames, listing, clock, scan, probe, pub, s3, written, hnd>>

\* parameter_names[i : i + max_params_per_call]
ChunkAt(names, i) == SubSeq(names, i + 1, Min(i + max_params_per_call, Len(names)))

\* all_parameters.update({...})
MergeChunk(all_parameters, response) ==
    DictUpdate(all_parameters, DictOfParameters(response.Parameters))

\* a variant that leaves the loop at the first chunk whose lookup raised
AfterChunkErrorBreak(r) == [r EXCEPT !.i = Len(r.parameter_names)]

\* lines 55-57: where the loop goes after a chunk whose lookup raised
AfterChunkError(r) == [r EXCEPT !.i = @ + max_params_per_call]

GetParametersChunk ==
    /\ res.pc = "loop"
    /\ res.i < Len(res.parameter_names)
    /\ LET chunk == ChunkAt(res.parameter_names, res.i)
           response == GetParametersResponse(chunk)
       IN \/ res' = [res EXCEPT !.i = @ + max_params_per_call,
                                !.all_parameters = MergeChunk(@, response),
                                !.calls = Append(@, [op |-> "get_parameters", Names |-> chunk,
                                                     WithDecryption |-> TRUE,
                                                     raised |-> None, response |-> response])]
          \/ res' = [AfterChunkError(res) EXCEPT
                                !.calls = Append(@, [op |-> "get_parameters", Names |-> chunk,
                                                     WithDecryption |-> TRUE,
                                                     raised |-> "ClientError",
                                                     response |-> NoResponse])]
    /\ UNCHANGED <<store, respNames, listing, clock, scan, probe, pub, s3, written, hnd>>

ResolverReturn ==
    /\ res.pc = "loop"
    /\ res.i >= Len(res.parameter_names)
    /\ res' = [res EXCEPT !.pc = "done", !.ret = res.all_parameters]
    /\ UNCHANGED <<store, respNames, listing, clock, scan, probe, pub, s3, written, hnd>>

-----------------------------------------------------------------------------
(* Discovery Scanner: fetch_health_status_ssm_values (lambda_function.py) and
   fetch_services_health_status (fetch_all.py) *)

\* fetch_all.py: the prefix chosen from the flag
PrefixOfFetchAll(shared_ssm) ==
    IF shared_ssm THEN "/unity/healthCheck/shared-services/" ELSE "/unity/healthCheck/"

\* lambda_function.py: the prefix chosen from the flag; an unset PROJECT or VENUE
\* formats as "None"
PrefixOfLambda(shared_ssm, project, venue) ==
    IF shared_ssm THEN "/unity/shared-services/component/"
    ELSE "/unity/" \o fstr(project) \o "/" \o fstr(venue) \o "/component/"

PrefixOf(variant, shared_ssm, project, venue) ==
    IF variant = "fetch_all" THEN PrefixOfFetchAll(shared_ssm)
    ELSE PrefixOfLambda(shared_ssm, project, venue)

NoListing == [shared |-> <<>>, local |-> <<>>]

ScanIdle ==
    [pc |-> "idle", variant |-> "lambda", shared_ssm |-> FALSE, prefix |-> "",
     parameter_names |-> <<>>, page |-> 0, ret |-> NoValue]

ScanCall(variant, shared_ssm, project, venue) ==
    [ScanIdle EXCEPT !.pc = "paging", !.variant = variant, !.shared_ssm = shared_ssm,
                     !.prefix = PrefixOf(variant, shared_ssm, project, venue)]

\* paginate(..., Shared=shared_ssm): the pages of the partition asked for
PagesOf(shared_ssm) == IF shared_ssm THEN listing.shared ELSE listing.local

\* page.get("Parameters", [])
PageParameters(page) == IF "Parameters" \in DOMAIN page THEN page.Parameters ELSE <<>>

\* the names of one page that the loop appends
KeptNames(params, prefix) ==
    LET kept == SelectSeq(params, LAMBDA param : startswith(param.Name, prefix))
    IN [j \in 1..Len(kept) |-> kept[j].Name]

\* parameter_names after the names of one page were appended
AppendNames(parameter_names, names) == parameter_names \o names

\* one turn of "for page in page_iterator", the inner loop included
ScanPage ==
    /\ scan.pc = "paging"
    /\ scan.page < Len(PagesOf(scan.shared_ssm))
    /\ LET page == PagesOf(scan.shared_ssm)[scan.page + 1]
       IN \/ /\ "Error" \notin DOMAIN page
             /\ scan' = [scan EXCEPT !.page = @ + 1,
                                     !.parameter_names =
                                        AppendNames(@, KeptNames(PageParameters(page), scan.prefix))]
          \/ /\ "Error" \in DOMAIN page
             /\ scan' = [scan EXCEPT !.pc = "raised"]
    /\ UNCHANGED <<store, respNames, listing, clock, res, probe, pub, s3, written, hnd>>

ScanReturn ==
    /\ scan.pc = "paging"
    /\ scan.page >= Len(PagesOf(scan.shared_ssm))
    /\ scan' = [scan EXCEPT !.pc = "done", !.ret = scan.parameter_names]
    /\ UNCHANGED <<store, respNames, listing, clock, res, probe, pub, s3, written, hnd>>

-----------------------------------------------------------------------------
(* Health Prober: check_service_health *)

\* Stored values the model draws from, with what json.loads makes of each.
TextA == "{\"componentName\": \"A\", \"healthCheckUrl\": \"http://a/health\"}"
TextB == "{\"componentName\": \"B\", \"healthCheckUrl\": \"http://b/health\", \"landingPageUrl\": \"http://b/\", \"componentCategory\": \"processing\", \"componentType\": \"api\", \"description\": \"B service\"}"
TextNoUrl == "{\"componentName\": \"C\", \"landingPageUrl\": \"http://c/\"}"
TextBareUrl == "http://d/health"
TextJsonString == "\"http://e/health\""

\* json.loads(text): the value, or the exception it raises
json_loads(text) ==
    CASE text = TextA ->
           [raised |-> None, type |-> "dict",
            value |-> <<<<"componentName", "A">>, <<"healthCheckUrl", "http://a/health">>>>]
      [] text = TextB ->
           [raised |-> None, type |-> "dict",
            value |-> <<<<"componentName", "B">>, <<"healthCheckUrl", "http://b/health">>,
                        <<"landingPageUrl", "http://b/">>,
                        <<"componentCategory", "processing">>,
                        <<"componentType", "api">>, <<"description", "B service">>>>]
      [] text = TextNoUrl ->
           [raised |-> None, type |-> "dict",
            value |-> <<<<"componentName", "C">>, <<"landingPageUrl", "http://c/">>>>]
      [] text = TextJsonString ->
           [raised |-> None, type |-> "str", value |-> <<>>]
      [] OTHER ->
           [raised |-> "JSONDecodeError", type |-> None, value |-> <<>>]

\* d.get(k, default)
get(d, k, default) == IF DictHas(d, k) THEN DictGet(d, k) ELSE default

\* status codes an endpoint may answer with
StatusCodes == {200, 201, 503}

\* what requests.get(url, headers=headers) may do: answer with a status code or
\* raise; a url of None always raises (MissingSchema)
GetOutcomes(url) ==
    {[raised |-> "RequestException", status_code |-> 0]}
    \cup (IF url = None THEN {}
          ELSE {[raised |-> None, status_code |-> c] : c \in StatusCodes})

\* datetime.datetime.now() read at microsecond t, and its renderings
Pad2(n) == IF n < 10 THEN "0" \o IntStr(n) ELSE IntStr(n)
isoformat(t) ==
    "2024-05-01T12:00:" \o Pad2((t \div 2) % 60) \o (IF t % 2 = 0 THEN ".000001" ELSE ".500001")
strftime(t) == "health_check_2024-05-01_12-00-" \o Pad2((t \div 2) % 60) \o ".json"

\* a variant that takes every 2xx answer for a healthy one
ClassifyAny2xx(outcome) ==
    IF outcome.raised = None
    THEN [status |-> IF outcome.status_code \div 100 = 2 THEN "HEALTHY" ELSE "UNHEALTHY",
          http_response_code |-> PyInt(outcome.status_code)]
    ELSE [status |-> "UNHEALTHY", http_response_code |-> PyStr("N/A")]

\* lines 147-154: the status and the response code of one probe
Classify(outcome) ==
    IF outcome.raised = None
    THEN [status |-> IF outcome.status_code = 200 THEN "HEALTHY" ELSE "UNHEALTHY",
          http_response_code |-> PyInt(outcome.status_code)]
    ELSE [status |-> "UNHEALTHY", http_response_code |-> PyStr("N/A")]

\* lines 156-173: the record appended for one entry
HealthRecord(ssm_key, d, c, t) ==
    [componentName |-> get(d, "componentName", None),
     componentCategory |-> get(d, "componentCategory", "EMPTY"),
     componentType |-> get(d, "componentType", "EMPTY"),
     description |-> get(d, "description", "EMPTY"),
     ssmKey |-> ssm_key,
     healthCheckUrl |-> get(d, "healthCheckUrl", None),
     landingPageUrl |-> get(d, "landingPageUrl", None),
     healthChecks |-> <<[status |-> c.status,
                         httpResponseCode |-> str(c.http_response_code),
                         date |-> isoformat(t)]>>]

ProbeIdle ==
    [pc |-> "idle", service_infos |-> EmptyDict, access_token |-> "", i |-> 0,
     health_status |-> [services |-> <<>>], gets |-> <<>>, raised |-> None, ret |-> NoValue]

ProbeCall(service_infos, access_token) ==
    [ProbeIdle EXCEPT !.pc = "loop", !.service_infos = service_infos,
                      !.access_token = access_token]

\* what line 138-145 do with an entry's value: TRUE when they raise
ParseRaises(parsed) == parsed.raised # None \/ parsed.type # "dict"

\* one turn of "for ssm_key, service_info in service_infos.items()"
ProbeEntry ==
    /\ probe.pc = "loop"
    /\ probe.i < Len(probe.service_infos)
    /\ LET ssm_key == probe.service_infos[probe.i + 1][1]
           service_info == probe.service_infos[probe.i + 1][2]
           parsed == json_loads(service_info)
           health_check_url == get(parsed.value, "healthCheckUrl", None)
       IN \/ /\ ParseRaises(parsed)
             /\ probe' = [probe EXCEPT !.pc = "raised",
                             !.raised = IF parsed.raised # None THEN parsed.raised
                                        ELSE "AttributeError"]
             /\ clock' = clock
          \/ /\ ~ParseRaises(parsed)
             /\ \E outcome \in GetOutcomes(health_check_url) :
                  probe' = [probe EXCEPT
                     !.i = @ + 1,
                     !.gets = Append(@, [url |-> health_check_url,
                                         Authorization |-> "Bearer " \o probe.access_token,
                                         raised |-> outcome.raised,
                                         status_code |-> outcome.status_code]),
                     !.health_status.services =
                         Append(@, HealthRecord(ssm_key, parsed.value, Classify(outcome), clock))]
             /\ clock' = clock + 1
    /\ UNCHANGED <<store, respNames, listing, res, scan, pub, s3, written, hnd>>

ProbeReturn ==
    /\ probe.pc = "loop"
    /\ probe.i >= Len(probe.service_infos)
    /\ probe' = [probe EXCEPT !.pc = "done", !.ret = probe.health_status]
    /\ UNCHANGED <<store, respNames, listing, clock, res, scan, pub, s3, written, hnd>>

-----------------------------------------------------------------------------
(* Report Publisher: upload_json_to_s3 *)

JsonStr(v) == IF v = None THEN "null" ELSE "\"" \o v \o "\""

DumpCheck(c) ==
    "                {\n"
    \o "                    \"status\": " \o JsonStr(c.status) \o ",\n"
    \o "                    \"httpResponseCode\": " \o JsonStr(c.httpResponseCode) \o ",\n"
    \o "                    \"date\": " \o JsonStr(c.date) \o "\n"
    \o "                }"

DumpRecord(r) ==
    "        {\n"
    \o "            \"componentName\": " \o JsonStr(r.componentName) \o ",\n"
    \o "            \"componentCategory\": " \o JsonStr(r.componentCategory) \o ",\n"
    \o "            \"componentType\": " \o JsonStr(r.componentType) \o ",\n"
    \o "            \"description\": " \o JsonStr(r.description) \o ",\n"
    \o "            \"ssmKey\": " \o JsonStr(r.ssmKey) \o ",\n"
    \o "            \"healthCheckUrl\": " \o JsonStr(r.healthCheckUrl) \o ",\n"
    \o "            \"landingPageUrl\": " \o JsonStr(r.landingPageUrl) \o ",\n"
    \o "            \"healthChecks\": [\n" \o DumpCheck(r.healthChecks[1]) \o "\n"
    \o "            ]\n"
    \o "        }"

RECURSIVE DumpRecords(_)
DumpRecords(rs) ==
    IF Len(rs) = 1 THEN DumpRecord(rs[1])
    ELSE DumpRecord(rs[1]) \o ",\n" \o DumpRecords(Tail(rs))

\* json.dumps(data, indent=4): the text, or the TypeError of a value that is no JSON
json_dumps(data) ==
    IF DOMAIN data # {"services"} THEN [raised |-> "TypeError", text |-> ""]
    ELSE IF data.services = <<>>
    THEN [raised |-> None, text |-> "{\n    \"services\": []\n}"]
    ELSE [raised |-> None,
          text |-> "{\n    \"services\": [\n" \o DumpRecords(data.services) \o "\n    ]\n}"]

LatestKey == "health_check_latest.json"

PubIdle ==
    [pc |-> "idle", json_data |-> [services |-> <<>>], bucket_name |-> "", object_name |-> "",
     json_string |-> "", puts |-> <<>>, ret |-> [ok |-> FALSE, message |-> NoValue], n |-> 0]

PubCall(json_data, bucket_name, object_name, n) ==
    [PubIdle EXCEPT !.pc = "dumps", !.json_data = json_data, !.bucket_name = bucket_name,
                    !.object_name = object_name, !.n = n]

\* errors the object store may answer a put with
S3Errors == {"An error occurred (AccessDenied) when calling the PutObject operation"}

\* s3_client.put_object(...) accepted by the store
S3Put(objects, bucket, key, body, content_type) ==
    [x \in DOMAIN objects \cup {<<bucket, key>>} |->
        IF x = <<bucket, key>> THEN [Body |-> body, ContentType |-> content_type]
        ELSE objects[x]]

PutRequest(bucket, key, body, accepted) ==
    [Bucket |-> bucket, Key |-> key, Body |-> body, ContentType |-> "application/json",
     accepted |-> accepted]

\* variants that write the latest key first, and the timestamped key twice
FirstKeyLatest(p) == LatestKey
SecondKeyAgain(p) == p.object_name

\* the key of the first put (line 196) and of the second (line 204)
FirstKey(p) == p.object_name
SecondKey(p) == LatestKey

\* the body of the second put (line 205)
SecondBody(p) == p.json_string

\* line 210-212: a caught exception becomes the result
Failure(p, e) == [p EXCEPT !.pc = "done", !.ret = [ok |-> FALSE, message |-> e]]

\* line 191
UploadSerialize ==
    /\ pub.pc = "dumps"
    /\ LET dumped == json_dumps(pub.json_data)
       IN pub' = IF dumped.raised = None
                 THEN [pub EXCEPT !.pc = "put_object", !.json_string = dumped.text]
                 ELSE Failure(pub, dumped.raised)
    /\ UNCHANGED <<store, respNames, listing, clock, res, scan, probe, s3, written, hnd>>

\* lines 194-199; a put the store fails leaves the store as it was
UploadPutObject ==
    /\ pub.pc = "put_object"
    /\ \/ /\ pub' = [pub EXCEPT !.pc = "put_latest",
                        !.puts = Append(@, PutRequest(pub.bucket_name, FirstKey(pub),
                                                      pub.json_string, TRUE))]
          /\ s3' = S3Put(s3, pub.bucket_name, FirstKey(pub), pub.json_string, "application/json")
          /\ written' = IF FirstKey(pub) = LatestKey THEN written
                        ELSE written \cup {<<pub.bucket_name, pub.json_string>>}
       \/ /\ \E e \in S3Errors :
                pub' = [Failure(pub, e) EXCEPT
                        !.puts = Append(@, PutRequest(pub.bucket_name, FirstKey(pub),
                                                      pub.json_string, FALSE))]
          /\ UNCHANGED <<s3, written>>
    /\ UNCHANGED <<store, respNames, listing, clock, res, scan, probe, hnd>>

\* lines 202-209
UploadPutLatest ==
    /\ pub.pc = "put_latest"
    /\ \/ /\ pub' = [pub EXCEPT !.pc = "done",
                        !.ret = [ok |-> TRUE, message |-> "JSON uploaded successfully."],
                        !.puts = Append(@, PutRequest(pub.bucket_name, SecondKey(pub),
                                                      SecondBody(pub), TRUE))]
          /\ s3' = S3Put(s3, pub.bucket_name, SecondKey(pub), SecondBody(pub), "application/json")
          /\ written' = IF SecondKey(pub) = LatestKey THEN written
                        ELSE written \cup {<<pub.bucket_name, SecondBody(pub)>>}
       \/ /\ \E e \in S3Errors :
                pub' = [Failure(pub, e) EXCEPT
                        !.puts = Append(@, PutRequest(pub.bucket_name, SecondKey(pub),
                                                      SecondBody(pub), FALSE))]
          /\ UNCHANGED <<s3, written>>
    /\ UNCHANGED <<store, respNames, listing, clock, res, scan, probe, hnd>>

-----------------------------------------------------------------------------
(* Credential Exchange and the invocation: create_cognito_client, lambda_handler *)

UsernameKey == "/unity/shared-services/cognito/monitoring-username"
PasswordKey == "/unity/shared-services/cognito/monitoring-password"
ClientIdKey == "/unity/shared-services/dapa/client-id"

shared_parameters_cognito == <<UsernameKey, PasswordKey, ClientIdKey>>

\* f"unity-{project}-{venue}-bucket"
BucketOf(project, venue) == "unity-" \o fstr(project) \o "-" \o fstr(venue) \o "-bucket"

NoResult == [statusCode |-> 0, body |-> "", headers |-> <<>>]

HndIdle ==
    [pc |-> "idle", project |-> None, venue |-> None, bucket_name |-> "",
     cognito_info |-> EmptyDict, shared_services_health_ssm |-> <<>>,
     local_health_ssm |-> <<>>, token |-> NoValue,
     shared_services_health_info |-> EmptyDict, local_health_info |-> EmptyDict,
     combined_health_info |-> EmptyDict, health_status |-> [services |-> <<>>],
     filename |-> "", upload |-> [ok |-> FALSE, message |-> NoValue],
     result |-> NoResult, raised |-> None,
     auth |-> <<>>,        \* history: the initiate_auth calls made
     shared_calls |-> <<>>, \* history: the store calls of the shared health resolution
     local_calls |-> <<>>]  \* history: the store calls of the local health resolution

\* lines 217-236
HandlerStart(project, venue) ==
    /\ hnd.pc = "start"
    /\ hnd' = [hnd EXCEPT !.pc = "cognito_info", !.project = project, !.venue = venue,
                          !.bucket_name = BucketOf(project, venue)]
    /\ res' = ResCall(shared_parameters_cognito, TRUE)
    /\ UNCHANGED <<store, respNames, listing, clock, scan, probe, pub, s3, written>>

\* lines 236-239
HandlerScanShared ==
    /\ hnd.pc = "cognito_info" /\ res.pc = "done"
    /\ hnd' = [hnd EXCEPT !.pc = "shared_services_health_ssm", !.cognito_info = res.ret]
    /\ scan' = ScanCall("lambda", TRUE, hnd.project, hnd.venue)
    /\ UNCHANGED <<store, respNames, listing, clock, res, probe, pub, s3, written>>

\* lines 239-242
HandlerScanLocal ==
    /\ hnd.pc = "shared_services_health_ssm" /\ scan.pc = "done"
    /\ hnd' = [hnd EXCEPT !.pc = "local_health_ssm", !.shared_services_health_ssm = scan.ret]
    /\ scan' = ScanCall("lambda", FALSE, hnd.project, hnd.venue)
    /\ UNCHANGED <<store, respNames, listing, clock, res, probe, pub, s3, written>>

\* a listing that raised ends the invocation
HandlerScanRaised ==
    /\ hnd.pc \in {"shared_services_health_ssm", "local_health_ssm"} /\ scan.pc = "raised"
    /\ hnd' = [hnd EXCEPT !.pc = "raised", !.raised = "ClientError"]
    /\ scan' = ScanIdle
    /\ UNCHANGED <<store, respNames, listing, clock, res, probe, pub, s3, written>>

\* what lines 111-123 may do once the call is made: return the token, raise from
\* the call, or raise KeyError on a response without an AuthenticationResult
AuthOutcomes ==
    {[raised |-> None, AccessToken |-> "tok123"],
     [raised |-> "NotAuthorizedException", AccessToken |-> None],
     [raised |-> "KeyError", AccessToken |-> None]}

\* the lookups of lines 114-121 all find their key
HasCredentials(cognito_info) ==
    /\ DictHas(cognito_info, UsernameKey)
    /\ DictHas(cognito_info, PasswordKey)
    /\ DictHas(cognito_info, ClientIdKey)

\* a variant that swallows the exception and goes on without a token
AuthSwallowed(h, e) == [h EXCEPT !.pc = "token", !.token = None]

\* the frame after an exception left create_cognito_client
AuthRaised(h, e) == [h EXCEPT !.pc = "raised", !.raised = e]

\* lines 242-246 and create_cognito_client (103-123)
CreateCognitoClient ==
    /\ hnd.pc = "local_health_ssm" /\ scan.pc = "done"
    /\ scan' = ScanIdle
    /\ LET h == [hnd EXCEPT !.local_health_ssm = scan.ret]
       IN \/ /\ ~HasCredentials(h.cognito_info)
             /\ hnd' = AuthRaised(h, "KeyError")
          \/ /\ HasCredentials(h.cognito_info)
             /\ \E outcome \in AuthOutcomes :
                  LET call == [AuthFlow |-> "USER_PASSWORD_AUTH",
                               USERNAME |-> DictGet(h.cognito_info, UsernameKey),
                               PASSWORD |-> DictGet(h.cognito_info, PasswordKey),
                               ClientId |-> DictGet(h.cognito_info, ClientIdKey)]
                       called == [h EXCEPT !.auth = Append(@, call)]
                  IN hnd' = IF outcome.raised = None
                            THEN [called EXCEPT !.pc = "token", !.token = outcome.AccessToken]
                            ELSE AuthRaised(called, outcome.raised)
    /\ UNCHANGED <<store, respNames, listing, clock, res, probe, pub, s3, written>>

\* lines 248-250
HandlerResolveShared ==
    /\ hnd.pc = "token"
    /\ hnd' = [hnd EXCEPT !.pc = "shared_services_health_info"]
    /\ res' = ResCall(hnd.shared_services_health_ssm, TRUE)
    /\ UNCHANGED <<store, respNames, listing, clock, scan, probe, pub, s3, written>>

\* lines 248-252
HandlerResolveLocal ==
    /\ hnd.pc = "shared_services_health_info" /\ res.pc = "done"
    /\ hnd' = [hnd EXCEPT !.pc = "local_health_info",
                          !.shared_services_health_info = res.ret,
                          !.shared_calls = res.calls]
    /\ res' = ResCall(hnd.local_health_ssm, FALSE)
    /\ UNCHANGED <<store, respNames, listing, clock, scan, probe, pub, s3, written>>

\* lines 252-262
HandlerCheck ==
    /\ hnd.pc = "local_health_info" /\ res.pc = "done"
    /\ LET combined == DictUpdate(hnd.shared_services_health_info, res.ret)
       IN /\ hnd' = [hnd EXCEPT !.pc = "health_status", !.local_health_info = res.ret,
                                !.local_calls = res.calls,
                                !.combined_health_info = combined]
          /\ probe' = ProbeCall(combined, hnd.token)
    /\ res' = ResIdle
    /\ UNCHANGED <<store, respNames, listing, clock, scan, pub, s3, written>>

\* an exception of check_service_health ends the invocation
HandlerProbeRaised ==
    /\ hnd.pc = "health_status" /\ probe.pc = "raised"
    /\ hnd' = [hnd EXCEPT !.pc = "raised", !.raised = probe.raised]
    /\ UNCHANGED <<store, respNames, listing, clock, res, scan, probe, pub, s3, written>>

\* lines 262-272
HandlerUpload ==
    /\ hnd.pc = "health_status" /\ probe.pc = "done"
    /\ hnd' = [hnd EXCEPT !.pc = "upload", !.health_status = probe.ret,
                          !.filename = strftime(clock)]
    /\ pub' = PubCall(probe.ret, hnd.bucket_name, strftime(clock), 1)
    /\ clock' = clock + 1
    /\ UNCHANGED <<store, respNames, listing, res, scan, probe, s3, written>>

\* the response of lines 276-280
ResponseOf(health_status) ==
    [statusCode |-> 200, body |-> json_dumps(health_status).text,
     headers |-> <<<<"Content-Type", "application/json">>>>]

\* a variant that reports a failed upload in the status code
HandlerReturnByUpload ==
    /\ hnd.pc = "upload" /\ pub.pc = "done"
    /\ hnd' = [hnd EXCEPT !.pc = "returned", !.upload = pub.ret,
                          !.result = [ResponseOf(hnd.health_status) EXCEPT
                                         !.statusCode = IF pub.ret.ok THEN 200 ELSE 500]]
    /\ UNCHANGED <<store, respNames, listing, clock, res, scan, probe, pub, s3, written>>

\* lines 270-280
HandlerReturn ==
    /\ hnd.pc = "upload" /\ pub.pc = "done"
    /\ hnd' = [hnd EXCEPT !.pc = "returned", !.upload = pub.ret,
                          !.result = ResponseOf(hnd.health_status)]
    /\ UNCHANGED <<store, respNames, listing, clock, res, scan, probe, pub, s3, written>>


-----------------------------------------------------------------------------
(* The resolver on its own: every list, either flag, every store *)

KeyOf(n) == "/unity/proj/dev/component/k" \o IntStr(n)

\* lists of n keys: all different, or cycling through three keys
KeyLists ==
    {[j \in 1..n |-> KeyOf(((j - 1) % m) + 1)] : n \in 0..MaxKeys, m \in {3, MaxKeys + 1}}

ValueOf(k) == "value of " \o k

StoreOf(present) == [j \in 1..Len(present) |-> <<present[j], ValueOf(present[j])>>]

ResolverStores ==
    {StoreOf([j \in 1..n |-> KeyOf(j * step)]) : n \in {0, 2, MaxKeys}, step \in {1, 2}}

InitResolver ==
    /\ store \in ResolverStores
    /\ respNames \in {"plain", "sent"}
    /\ \E names \in KeyLists, shared \in BOOLEAN : res = ResCall(names, shared)
    /\ scan = ScanIdle /\ probe = ProbeIdle /\ pub = PubIdle /\ hnd = HndIdle
    /\ listing = NoListing /\ clock = 0
    /\ s3 = <<>> /\ written = {}

NextResolver == GetAccountId \/ GetParametersChunk \/ ResolverReturn

SpecResolver == InitResolver /\ [][NextResolver]_vars

-----------------------------------------------------------------------------
(* The scanner on its own: both variants, either flag, every listing *)

Projects == {"proj", None}
Venues == {"dev"}

ParamOf(name) == [Name |-> name, Type |-> "String"]

\* pages a listing may hold: without a Parameters field, failing, with names under
\* the prefix, with names that are not under it, with a name twice
PageChoices(prefix) ==
    {[NextToken |-> "t"], [Error |-> "ClientError"],
     [Parameters |-> <<ParamOf(prefix \o "a")>>],
     [Parameters |-> <<ParamOf(prefix \o "b")>>],
     [Parameters |-> <<ParamOf("/unity/healthCheck")>>],
     [Parameters |-> <<ParamOf(prefix \o "a"), ParamOf("x" \o prefix \o "a")>>],
     [Parameters |-> <<ParamOf(prefix \o "b"), ParamOf(prefix \o "a")>>]}

Listings(prefix) ==
    UNION {[1..n -> PageChoices(prefix)] : n \in 0..MaxPages}

InitScanner ==
    /\ \E variant \in {"lambda", "fetch_all"}, shared_ssm \in BOOLEAN,
          project \in Projects, venue \in Venues :
          /\ scan = ScanCall(variant, shared_ssm, project, venue)
          /\ \E pages \in Listings(PrefixOf(variant, shared_ssm, project, venue)) :
                listing = [shared |-> IF shared_ssm THEN pages ELSE <<>>,
                           local |-> IF shared_ssm THEN <<>> ELSE pages]
    /\ store = EmptyDict /\ respNames = "plain" /\ clock = 0
    /\ res = ResIdle /\ probe = ProbeIdle /\ pub = PubIdle /\ hnd = HndIdle
    /\ s3 = <<>> /\ written = {}

NextScanner == ScanPage \/ ScanReturn

SpecScanner == InitScanner /\ [][NextScanner]_vars

-----------------------------------------------------------------------------
(* The prober on its own: every mapping of up to MaxEntries entries *)

ServiceKey(n) == "/unity/proj/dev/component/s" \o IntStr(n)

ServiceTexts == {TextA, TextB, TextNoUrl, TextBareUrl, TextJsonString}

ServiceInfos ==
    UNION {{[j \in 1..n |-> <<ServiceKey(j), t[j]>>] : t \in [1..n -> ServiceTexts]} :
           n \in 0..MaxEntries}

InitProber ==
    /\ \E service_infos \in ServiceInfos : probe = ProbeCall(service_infos, "tok123")
    /\ store = EmptyDict /\ respNames = "plain" /\ listing = NoListing /\ clock \in {0, 119}
    /\ res = ResIdle /\ scan = ScanIdle /\ pub = PubIdle /\ hnd = HndIdle
    /\ s3 = <<>> /\ written = {}

NextProber == ProbeEntry \/ ProbeReturn

SpecProber == InitProber /\ [][NextProber]_vars

-----------------------------------------------------------------------------
(* The publisher on its own: successive calls against one object store *)

EmptyReport == [services |-> <<>>]

OneReport(text, outcome) ==
    [services |-> <<HealthRecord(ServiceKey(1), json_loads(text).value, Classify(outcome), 0)>>]

\* reports handed to the publisher, and a value json.dumps cannot serialize
UploadData ==
    {EmptyReport,
     OneReport(TextA, [raised |-> None, status_code |-> 200]),
     OneReport(TextNoUrl, [raised |-> "RequestException", status_code |-> 0]),
     [services |-> <<>>, generated |-> "<datetime>"]}

\* an upload as lambda_handler makes it (lines 266-272), time having passed or not
CallUpload ==
    /\ pub.pc \in {"idle", "done"}
    /\ pub.n < MaxUploads
    /\ \E data \in UploadData, t \in {clock, clock + 2}, project \in Projects :
          /\ pub' = PubCall(data, BucketOf(project, "dev"), strftime(t), pub.n + 1)
          /\ clock' = t
    /\ UNCHANGED <<store, respNames, listing, res, scan, probe, s3, written, hnd>>

InitPublisher ==
    /\ pub = PubIdle /\ s3 = <<>> /\ written = {}
    /\ store = EmptyDict /\ respNames = "plain" /\ listing = NoListing /\ clock = 0
    /\ res = ResIdle /\ scan = ScanIdle /\ probe = ProbeIdle /\ hnd = HndIdle

NextPublisher == CallUpload \/ UploadSerialize \/ UploadPutObject \/ UploadPutLatest

SpecPublisher == InitPublisher /\ [][NextPublisher]_vars

-----------------------------------------------------------------------------
(* One invocation of lambda_handler *)

SharedKey == "/unity/shared-services/component/a"
LocalKey == "/unity/proj/dev/component/b"

CredentialStores ==
    {<<<<UsernameKey, "monitor">>, <<PasswordKey, "secret">>, <<ClientIdKey, "client-1">>>>,
     <<<<UsernameKey, "monitor">>, <<PasswordKey, "secret">>>>,
     <<>>}

ComponentStores ==
    {<<<<SharedKey, ts>>, <<LocalKey, tl>>>> :
        ts \in {TextA, TextBareUrl}, tl \in {TextB, TextNoUrl}}

HandlerStores == {c \o k : c \in CredentialStores, k \in ComponentStores}

HandlerListings ==
    {[shared |-> sp, local |-> lp] :
        sp \in {<<>>, <<[Parameters |-> <<ParamOf(SharedKey)>>]>>,
                <<[Parameters |-> <<ParamOf(SharedKey)>>], [Parameters |-> <<ParamOf(SharedKey)>>]>>,
                <<[Error |-> "ClientError"]>>},
        lp \in {<<[NextToken |-> "t"]>>,
                <<[Parameters |-> <<ParamOf(LocalKey)>>], [Error |-> "ClientError"]>>,
                <<[Parameters |-> <<ParamOf(LocalKey), ParamOf(SharedKey)>>]>>}}

Init ==
    /\ store \in HandlerStores
    /\ respNames \in {"plain", "sent"}
    /\ listing \in HandlerListings
    /\ clock = 0
    /\ res = ResIdle /\ scan = ScanIdle /\ probe = ProbeIdle /\ pub = PubIdle
    /\ s3 = <<>> /\ written = {}
    /\ hnd = [HndIdle EXCEPT !.pc = "start"]

Next ==
    \/ \E project \in Projects, venue \in Venues : HandlerStart(project, venue)
    \/ GetAccountId \/ GetParametersChunk \/ ResolverReturn
    \/ HandlerScanShared \/ HandlerScanLocal \/ HandlerScanRaised
    \/ ScanPage \/ ScanReturn
    \/ CreateCognitoClient
    \/ HandlerResolveShared \/ HandlerResolveLocal \/ HandlerCheck
    \/ ProbeEntry \/ ProbeReturn \/ HandlerProbeRaised
    \/ HandlerUpload
    \/ UploadSerialize \/ UploadPutObject \/ UploadPutLatest
    \/ HandlerReturn

Spec == Init /\ [][Next]_vars

-----------------------------------------------------------------------------
(* Properties *)

\* the batched lookups of a resolution, in the order they were issued
Batches(calls) == SelectSeq(calls, LAMBDA c : c.op = "get_parameters")

\* the resolution stopped at the account-identifier lookup
HardStop(calls) ==
    \E j \in 1..Len(calls) : calls[j].op = "get_parameter" /\ calls[j].raised # None

\* the Name -> Value pairs of the batched lookups that did not error
AnsweredPairs(calls) ==
    UNION {{<<q.Name, q.Value>> : q \in Range(Batches(calls)[b].response.Parameters)} :
           b \in {x \in 1..Len(Batches(calls)) : Batches(calls)[x].raised = None}}

\* the batches cut a list of n keys into ceil(n/10) runs of at most 10, in order
ChunkedInOrder(calls, expected) ==
    LET B == Batches(calls)
        n == Len(expected)
    IN /\ Len(B) = (n + 9) \div 10
       /\ \A b \in 1..Len(B) :
            /\ Len(B[b].Names) = (IF b < Len(B) THEN 10 ELSE n - 10 * (b - 1))
            /\ \A k \in 1..Len(B[b].Names) : B[b].Names[k] = expected[10 * (b - 1) + k]

\* C1: for every input mapping and every combination of per-entry outcomes,
\* check_service_health returns without raising, and its report holds exactly one
\* record per input entry, in the input mapping's order.
C1_ProberIsolation ==
    /\ probe.pc # "raised"
    /\ probe.pc = "done" =>
          /\ Len(probe.ret.services) = Len(probe.service_infos)
          /\ \A j \in 1..Len(probe.service_infos) :
                probe.ret.services[j].ssmKey = probe.service_infos[j][1]

CodeText == (200 :> "200") @@ (201 :> "201") @@ (503 :> "503")

\* C2: every probed entry has one check result: HEALTHY with "200" exactly when the
\* GET answered 200, UNHEALTHY with the code as a string when it answered another
\* code, UNHEALTHY with "N/A" when the GET raised, and the prober itself goes on.
C2_Classification ==
    /\ Len(probe.health_status.services) = Len(probe.gets)
    /\ \A j \in 1..Len(probe.gets) :
          LET g == probe.gets[j]
              checks == probe.health_status.services[j].healthChecks
          IN /\ Len(checks) = 1
             /\ (checks[1].status = "HEALTHY") <=> (g.raised = None /\ g.status_code = 200)
             /\ checks[1].status \in {"HEALTHY", "UNHEALTHY"}
             /\ g.raised = None => checks[1].httpResponseCode = CodeText[g.status_code]
             /\ g.raised # None => checks[1].httpResponseCode = "N/A"
    /\ probe.raised # "RequestException"

C2_Witness ==
    /\ probe.pc = "done"
    /\ Len(probe.gets) = 3
    /\ probe.gets[1].raised = None /\ probe.gets[1].status_code = 200
    /\ probe.gets[2].raised # None
    /\ probe.gets[3].raised = None /\ probe.gets[3].status_code = 503
    /\ probe.ret.services[2].healthCheckUrl # None

\* C3: a resolution that gets to its lookups issues ceil(n/10) batched lookups of at
\* most 10 keys that cover the keys once and in order, goes on after a chunk whose
\* lookup errored, and returns the union of the Name -> Value results of the chunks
\* that did not error, without the keys reported invalid.
C3_Chunking ==
    (res.pc = "done" /\ ~HardStop(res.calls)) =>
        /\ ChunkedInOrder(res.calls, res.parameter_names)
        /\ Len(res.parameter_names) = Len(res.requested)
        /\ \A b \in 1..Len(Batches(res.calls)) : Batches(res.calls)[b].WithDecryption
        /\ DictItems(res.ret) = AnsweredPairs(res.calls)
        /\ \A b \in 1..Len(Batches(res.calls)) :
              \A k \in Range(Batches(res.calls)[b].response.InvalidParameters) :
                 ~DictHas(res.ret, k)

C3_Witness ==
    /\ res.pc = "done"
    /\ Len(res.requested) = 21
    /\ Len(Batches(res.calls)) = 3
    /\ Batches(res.calls)[1].raised = None
    /\ Batches(res.calls)[2].raised # None
    /\ Batches(res.calls)[3].raised = None
    /\ Batches(res.calls)[1].response.InvalidParameters # <<>>
    /\ Len(res.ret) > 3

\* C4: upload_json_to_s3 never raises; with a store that accepts the writes it puts
\* the same JSON body twice in the bucket, under the given key and under
\* health_check_latest.json, and returns (True, message); when a put or the
\* serialization fails it returns (False, error text).
C4_Publisher ==
    /\ pub.pc \in {"idle", "dumps", "put_object", "put_latest", "done"}
    /\ \A j \in 1..Len(pub.puts) :
          /\ pub.puts[j].Bucket = pub.bucket_name
          /\ pub.puts[j].ContentType = "application/json"
          /\ pub.puts[j].Body = pub.json_string
    /\ pub.pc = "done" =>
          /\ pub.ret.ok <=> (Len(pub.puts) = 2 /\ \A j \in 1..2 : pub.puts[j].accepted)
          /\ pub.ret.ok =>
                /\ pub.puts[1].Key = pub.object_name
                /\ pub.puts[2].Key = "health_check_latest.json"
                /\ pub.ret.message = "JSON uploaded successfully."
                /\ <<pub.bucket_name, pub.object_name>> \in DOMAIN s3
                /\ s3[<<pub.bucket_name, pub.object_name>>].Body = pub.json_string
                /\ s3[<<pub.bucket_name, "health_check_latest.json">>] =
                      s3[<<pub.bucket_name, pub.object_name>>]
          /\ ~pub.ret.ok =>
                /\ pub.ret.message \in S3Errors \cup {"TypeError"}
                /\ \/ pub.puts = <<>> /\ pub.ret.message = "TypeError"
                   \/ pub.puts # <<>> /\ ~pub.puts[Len(pub.puts)].accepted
                /\ \A j \in 1..(Len(pub.puts) - 1) : pub.puts[j].accepted
                /\ Len(pub.puts) <= 2

C4_Witness ==
    /\ pub.pc = "done" /\ pub.ret.ok
    /\ pub.json_data.services # <<>>
    /\ Len(pub.puts) = 2

\* C5: whenever lambda_handler reaches the publish step it returns status 200 with
\* the JSON text of the report it handed to the publisher and the JSON content
\* type, whatever the publisher returned; it produces no other status.
C5_ResultIgnoresUpload ==
    /\ hnd.result.statusCode \in {0, 200}
    /\ (hnd.result # NoResult) <=> (hnd.pc = "returned")
    /\ (hnd.pc = "upload" /\ pub.pc = "done") => ENABLED HandlerReturn
    /\ hnd.pc \in {"upload", "returned"} => pub.json_data = hnd.health_status
    /\ hnd.pc = "returned" =>
          /\ hnd.result.statusCode = 200
          /\ hnd.result.body = pub.json_string
          /\ hnd.result.headers = <<<<"Content-Type", "application/json">>>>
          /\ hnd.upload = pub.ret
          /\ hnd.health_status = probe.ret

C5_Witness ==
    /\ hnd.pc = "returned"
    /\ ~hnd.upload.ok
    /\ hnd.health_status.services # <<>>
    /\ hnd.result.statusCode = 200

\* C6: the list fetch_health_status_ssm_values returns holds only keys under the
\* prefix of the flag, holds no key twice, and holds every key under the prefix of
\* every page; an empty listing gives an empty list.
C6_ScannerNoDuplicates ==
    scan.pc = "done" =>
        LET expected == IF scan.variant = "fetch_all"
                        THEN (IF scan.shared_ssm THEN "/unity/healthCheck/shared-services/"
                              ELSE "/unity/healthCheck/")
                        ELSE (IF scan.shared_ssm THEN "/unity/shared-services/component/"
                              ELSE scan.prefix)
            pages == PagesOf(scan.shared_ssm)
        IN /\ scan.prefix = expected
           /\ \A j \in 1..Len(scan.ret) : startswith(scan.ret[j], expected)
           /\ \A j, k \in 1..Len(scan.ret) : j # k => scan.ret[j] # scan.ret[k]
           /\ \A g \in 1..Len(pages) :
                 \A q \in Range(PageParameters(pages[g])) :
                    startswith(q.Name, expected) => q.Name \in Range(scan.ret)
           /\ pages = <<>> => scan.ret = <<>>

\* the invocation is past create_cognito_client
PastExchange ==
    hnd.pc \notin {"idle", "start", "cognito_info", "shared_services_health_ssm",
                   "local_health_ssm"}

\* nothing was probed, stored or returned
NothingDone ==
    /\ probe.pc = "idle" /\ probe.gets = <<>>
    /\ pub.pc = "idle" /\ pub.puts = <<>>
    /\ s3 = <<>>
    /\ hnd.result = NoResult

\* C7: an invocation makes at most one authentication call, and exactly one when the
\* three credentials are there; when a credential is missing from the mapping, or
\* the call fails, the error leaves lambda_handler, and the invocation probes
\* nothing, stores nothing and returns no response.
C7_CredentialExchange ==
    LET complete == /\ DictHas(hnd.cognito_info, "/unity/shared-services/cognito/monitoring-username")
                    /\ DictHas(hnd.cognito_info, "/unity/shared-services/cognito/monitoring-password")
                    /\ DictHas(hnd.cognito_info, "/unity/shared-services/dapa/client-id")
    IN /\ Len(hnd.auth) <= 1
       /\ ~PastExchange => hnd.auth = <<>> /\ NothingDone
       /\ (PastExchange /\ hnd.pc # "raised") => (Len(hnd.auth) = 1 /\ complete)
       /\ (PastExchange /\ ~complete) =>
             (hnd.pc = "raised" /\ hnd.raised \in {"KeyError", "ClientError"}
              /\ hnd.auth = <<>> /\ NothingDone)
       /\ hnd.raised \in {"KeyError", "NotAuthorizedException"} =>
             /\ hnd.pc = "raised" /\ NothingDone
             /\ hnd.token = NoValue
             /\ Len(hnd.auth) = (IF complete THEN 1 ELSE 0)
       /\ hnd.raised = "NotAuthorizedException" => complete
       /\ hnd.token # NoValue => hnd.token = "tok123"

C7_Witness ==
    /\ hnd.pc = "raised" /\ hnd.raised = "KeyError"
    /\ Len(hnd.cognito_info) = 2
    /\ hnd.local_health_ssm # <<>>

\* C8: a shared resolution whose account-identifier lookup fails returns an empty
\* mapping without raising and without a batched lookup; the local resolution of the
\* same invocation goes on as it would have: it sends the local keys unchanged, in
\* chunks, and returns what those lookups answered.
C8_SharedHardStop ==
    /\ HardStop(res.calls) =>
          /\ res.pc = "done" /\ res.ret = EmptyDict
          /\ Len(res.calls) = 1 /\ Batches(res.calls) = <<>>
    /\ res.pc = "done" => res.ret # NoValue
    /\ (HardStop(hnd.shared_calls) /\ hnd.pc = "local_health_info") =>
          (hnd.shared_services_health_info = EmptyDict /\ hnd.raised = None
           /\ ~HardStop(res.calls))
    /\ (HardStop(hnd.shared_calls) /\ hnd.pc \in {"health_status", "upload", "returned"}) =>
          /\ hnd.shared_services_health_info = EmptyDict
          /\ Batches(hnd.shared_calls) = <<>>
          /\ Len(hnd.local_calls) = Len(Batches(hnd.local_calls))
          /\ ChunkedInOrder(hnd.local_calls, hnd.local_health_ssm)
          /\ DictItems(hnd.local_health_info) = AnsweredPairs(hnd.local_calls)
          /\ hnd.combined_health_info = hnd.local_health_info

C8_Witness ==
    /\ hnd.pc = "returned"
    /\ HardStop(hnd.shared_calls)
    /\ hnd.shared_services_health_ssm # <<>>
    /\ hnd.local_health_info # EmptyDict
    /\ hnd.health_status.services # <<>>

\* C9: with shared=true every key of a batched lookup is the requested key written
\* as arn:aws:ssm:us-west-2:<account id>:parameter<key>, with the account id the
\* lookup resolved; with shared=false the keys are the requested keys and the
\* account identifier is never looked up; order and count are kept.
C9_KeyRewriting ==
    LET B == Batches(res.calls)
        sent(b, k) == B[b].Names[k]
        asked(b, k) == res.requested[10 * (b - 1) + k]
    IN /\ res.shared =>
             \A b \in 1..Len(B) : \A k \in 1..Len(B[b].Names) :
                /\ res.calls[1].op = "get_parameter"
                /\ res.calls[1].Name = "/unity/shared-services/aws/account"
                /\ res.calls[1].raised = None
                /\ sent(b, k) = "arn:aws:ssm:us-west-2:" \o res.calls[1].Value
                                  \o ":parameter" \o asked(b, k)
       /\ ~res.shared =>
             /\ \A b \in 1..Len(B) : \A k \in 1..Len(B[b].Names) : sent(b, k) = asked(b, k)
             /\ Len(B) = Len(res.calls)
       /\ (res.pc = "done" /\ ~HardStop(res.calls)) =>
             /\ Len(B) = (Len(res.requested) + 9) \div 10
             /\ \A b \in 1..Len(B) :
                   Len(B[b].Names) = Min(10, Len(res.requested) - 10 * (b - 1))

C9_Witness ==
    /\ res.pc = "done" /\ res.shared
    /\ Len(res.requested) = 21
    /\ Len(Batches(res.calls)) = 3
    /\ res.calls[1].Value = "999999999999"
    /\ res.ret # EmptyDict

\* within a call the latest key is put second, after an accepted put of the same
\* body under the given key, and the latest object holds a body written under a
\* timestamped key
LatestFollowsTimestamped ==
    /\ \A j \in 1..Len(pub.puts) :
          pub.puts[j].Key = "health_check_latest.json" =>
             /\ j = 2
             /\ pub.puts[1].Key = pub.object_name
             /\ pub.puts[1].accepted
             /\ pub.puts[1].Body = pub.puts[2].Body
    /\ (pub.pc = "done" /\ Len(pub.puts) = 1) =>
          (~pub.puts[1].accepted /\ pub.puts[1].Key = pub.object_name /\ ~pub.ret.ok)
    /\ (pub.pc = "done" /\ Len(pub.puts) = 2 /\ ~pub.puts[2].accepted) =>
          /\ ~pub.ret.ok /\ pub.ret.message \in S3Errors
          /\ s3[<<pub.bucket_name, pub.object_name>>].Body = pub.json_string
    /\ \A x \in DOMAIN s3 :
          x[2] = "health_check_latest.json" => <<x[1], s3[x].Body>> \in written

\* a call that ends in failure has changed no object in its last step
FailedPutChangesNothing ==
    [][(pub.pc # "done" /\ pub'.pc = "done" /\ ~pub'.ret.ok) => s3' = s3]_vars

\* C10: in one call the timestamped object is written before the latest key, and
\* the latest key only after the timestamped put of that body was accepted; a
\* failed first put changes no object, a failed second put leaves the new
\* timestamped object and the old latest object and returns (False, error); the
\* latest object always holds a body once written under a timestamped key.
C10_PublishOrdering == []LatestFollowsTimestamped /\ FailedPutChangesNothing

C10_Witness ==
    /\ pub.pc = "done" /\ ~pub.ret.ok
    /\ Len(pub.puts) = 2
    /\ <<pub.bucket_name, "health_check_latest.json">> \in DOMAIN s3
    /\ s3[<<pub.bucket_name, "health_check_latest.json">>].Body # pub.json_string
    /\ s3[<<pub.bucket_name, pub.object_name>>].Body = pub.json_string

====
